---- MODULE Spec2Model ----
(***************************************************************************)
(* SignBridge backend (backend/server.py): the SignRecognizer temporal     *)
(* stabilizer / commit state machine and the /ws message loop that feeds   *)
(* it.                                                                     *)
(*                                                                         *)
(* Units.  Timestamps are integer milliseconds (time.time() * 1000).       *)
(* Confidences are hundredths (0.9 is 90).  An average confidence is kept  *)
(* exactly, in units of 1/(100 * AvgScale): AvgScale is divisible by every *)
(* possible window length 1..10, so the mean of n hundredths is the        *)
(* integer Sum * AvgScale / n.                                             *)
(***************************************************************************)
EXTENDS Integers, Sequences, FiniteSets, TLC

\* ------------------------------------------------------------------------
\* Program constants
\* ------------------------------------------------------------------------

\* deque(maxlen=10)
WindowSize == 10

\* 400ms threshold of sustained stability
StableThresholdMs == 400

\* 1 second cooldown between commits
CooldownMs == 1000

\* stability_ratio >= 0.7, as tenths
RatioTenths == 7

\* avg_confidence >= 0.75, as hundredths
MinAvgConf == 75

\* lcm(1..10): scale that keeps a mean over at most 10 entries integral
AvgScale == 2520

\* Python None for stable_start (a timestamp otherwise)
NoneTime == -1

\* Python None for last_committed_token (a token string otherwise)
NoneToken == "None"

\* time.time() * 1000 is Unix-epoch milliseconds: far beyond the cooldown.
\* The model clock starts here instead of at 1.7e12.
StartTime == 100000

\* ------------------------------------------------------------------------
\* Bounds of the model
\* ------------------------------------------------------------------------

\* calls of smooth_prediction on the stabilizer under test
MaxFrames == 11

\* changes of input from one frame to the next, in the stabilizer runs
MaxSwitches == 2

\* calls of smooth_prediction in the runs that commit, switch and return
MaxLongFrames == 16

\* frames fed before one label starts being held
MaxPrefix == 3

\* frames fed while one label is held
MaxHoldFrames == 13

\* messages sent by all clients together, in the server runs
MaxMsgs == 3

\* messages a client has sent that its handler has not yet received
MaxInFlight == 2

\* ------------------------------------------------------------------------
\* Input sets
\* ------------------------------------------------------------------------

\* (token, confidence) pairs fed to the stabilizer
StabInputs == { <<"HELLO", 90>>, <<"HELLO", 25>>, <<"YES", 90>>, <<"NONE", 90>> }

\* time elapsed between two calls of time.time()
Deltas == { 0, 500 }

\* time elapsed between frames in the 10 x HELLO scenario
HelloDeltas == { 50, 400 }

\* time elapsed between frames in the alternating scenario
AltDeltas == { 0, 50, 400, 1000 }

\* inputs and time steps of the runs that commit, switch label and return
LongInputs == { <<"HELLO", 90>>, <<"YES", 90>> }
LongDeltas == { 0, 1000 }

\* the labels that may be held (not NONE, confidence at least 0.75) and the
\* time between two frames while a label is held (time keeps increasing)
HoldInputs == { <<"HELLO", 90>>, <<"YES", 90>> }
HoldDeltas == { 500, 1000 }

\* no label is being held
NoHold == << >>

\* time elapsed between two frames reaching smooth_prediction on the server
ServerDeltas == { 0, 400 }

\* the clients that may connect to /ws
Conns == { "A", "B" }

\* what landmarker.detect and extract_features find in a decodable image:
\* no hand, or the mean fingertip distance (hundredths) of the hand's features
NoHand == -1
Images == { NoHand, 40, 60 }

\* texts that make the handler raise before any prediction: json.loads
\* fails, no "type" key, no "image_b64" key, base64 with bad padding, bytes
\* that are no image
BadKinds == { "bad_json", "no_type", "no_image_b64", "bad_base64", "bad_image" }

\* well-formed messages whose type is not "frame"
OtherTypes == { "audio", "audio_file", "ping" }

VARIABLES
    recognizer,   \* the SignRecognizer instance (its four fields)
    now,          \* the last value of time.time() * 1000
    event,        \* the dict last returned by smooth_prediction
    nframes,      \* number of smooth_prediction calls made so far
    switches,     \* number of frames whose input differs from the previous one
    commits,      \* the events returned with commit = True, in order
    other_since,  \* some frame since the last commit had a dominant token
                  \* other than the committed one
    out,          \* every event returned, in order (scenario runs only)
    hold,         \* the (token, confidence) fed on every frame from now on
    hold_from,    \* number of commits made before the label was held
    hold_frames,  \* frames fed since the label is held
    pc,           \* per client: "idle" (no connection), "recv" (handler at
                  \* receive_text), "send" (handler at send_text)
    inbox,        \* per client: messages sent and not yet received
    prediction,   \* per client: the handler's local prediction
    frames_in,    \* per connection: frames received by the handler
    units,        \* per connection: frame/audio/audio_file messages received
    replies,      \* per connection: events sent
    answered,     \* per connection: for each event sent, the frame it answers
    ended,        \* per client: how its last connection ended
    nmsgs,        \* messages sent by all clients so far
    ignored,      \* per connection: messages received that no branch handled
    session,      \* per connection: a stabilizer fed by this connection only
    expected      \* per connection: the event that stabilizer returns

stab_vars == << event, nframes, switches, commits, other_since, out,
               hold, hold_from, hold_frames >>

hold_vars == << hold, hold_from, hold_frames >>

server_vars == << pc, inbox, prediction, frames_in, units, replies, answered,
                  ended, nmsgs, ignored, session, expected >>

vars == << recognizer, now, stab_vars, server_vars >>

\* ------------------------------------------------------------------------
\* SignRecognizer
\* ------------------------------------------------------------------------

\* SignRecognizer.__init__
NewRecognizer ==
    [ prediction_window    |-> << >>,
      last_commit_time     |-> 0,
      last_committed_token |-> NoneToken,
      stable_start         |-> NoneTime ]

\* a deque without maxlen: nothing is ever dropped
DequeAppend_Unbounded(w, x) == Append(w, x)

\* deque(maxlen=10).append: the oldest entry is dropped when full
DequeAppend(w, x) ==
    IF Len(w) >= WindowSize THEN Append(Tail(w), x) ELSE Append(w, x)

\* window_tokens, as the set of distinct tokens
WindowTokens(w) == { w[i][1] : i \in 1..Len(w) }

\* Counter(window_tokens)[t]
TokenCount(w, t) == Cardinality({ i \in 1..Len(w) : w[i][1] = t })

\* position at which Counter first meets t (its insertion order)
FirstSeen(w, t) ==
    CHOOSE i \in 1..Len(w) : w[i][1] = t /\ \A j \in 1..(i - 1) : w[j][1] # t

\* highest count, last inserted on a tie
MostCommon_LastOnTie(w) ==
    CHOOSE t \in WindowTokens(w) :
        \A u \in WindowTokens(w) :
            \/ TokenCount(w, t) > TokenCount(w, u)
            \/ /\ TokenCount(w, t) = TokenCount(w, u)
               /\ FirstSeen(w, t) >= FirstSeen(w, u)

\* token_counts.most_common(1)[0][0]: highest count, first inserted on a tie
MostCommon(w) ==
    CHOOSE t \in WindowTokens(w) :
        \A u \in WindowTokens(w) :
            \/ TokenCount(w, t) > TokenCount(w, u)
            \/ /\ TokenCount(w, t) = TokenCount(w, u)
               /\ FirstSeen(w, t) <= FirstSeen(w, u)

RECURSIVE ConfSum(_, _)
\* sum of the confidences of the entries of w whose token is t
ConfSum(w, t) ==
    IF w = << >> THEN 0
    ELSE (IF Head(w)[1] = t THEN Head(w)[2] ELSE 0) + ConfSum(Tail(w), t)

\* np.mean([c for t, c in window if t == dominant]), scaled by AvgScale
AvgConfidence(w, t) == (ConfSum(w, t) * AvgScale) \div TokenCount(w, t)

\* the count compared with 0.7 without dividing by the window length
RatioOk_NoDivision(count, len) == count * 10 >= RatioTenths

\* a bare majority taken for stability: stability_ratio >= 0.5
RatioOk_Half(count, len) == count * 10 >= 5 * len

\* stability_ratio >= 0.7, with stability_ratio = count / len(window_tokens)
RatioOk(count, len) == count * 10 >= RatioTenths * len

\* avg_confidence >= 0.75
ConfOk(avg) == avg >= MinAvgConf * AvgScale

\* is_stable
IsStable(w) ==
    LET d == MostCommon(w) IN
        /\ RatioOk(TokenCount(w, d), Len(w))
        /\ ConfOk(AvgConfidence(w, d))
        /\ d # "NONE"

\* the "is None" test left out: the clock restarts on every stable frame
StableStart_Restart(is_stable, stable_start, current_time) ==
    IF is_stable THEN current_time ELSE NoneTime

\* the else branch left out: stable_start survives a loss of stability
StableStart_NoReset(is_stable, stable_start, current_time) ==
    IF is_stable /\ stable_start = NoneTime THEN current_time ELSE stable_start

\* self.stable_start after the is_stable branch: set when stability begins,
\* kept while it lasts, cleared when it is lost
StableStart(is_stable, stable_start, current_time) ==
    IF is_stable
    THEN (IF stable_start = NoneTime THEN current_time ELSE stable_start)
    ELSE NoneTime

\* the duration threshold left out
LongEnough_NoThreshold(stable_ms) == stable_ms >= 0

\* the duration threshold taken strictly: stable_ms > 400
LongEnough_Strict(stable_ms) == stable_ms > StableThresholdMs

\* stable_ms >= 400
LongEnough(stable_ms) == stable_ms >= StableThresholdMs

\* the cooldown compared in seconds against a clock in milliseconds
CooledDown_Seconds(time_since_commit) == time_since_commit >= 1

\* time_since_commit >= 1000
CooledDown(time_since_commit) == time_since_commit >= CooldownMs

\* the comparison with the last committed token left out
NotRepeat_Unchecked(dominant, last) == TRUE

\* dominant_token != self.last_committed_token
NotRepeat(dominant, last) == dominant # last

\* SignRecognizer.smooth_prediction(token, confidence) called at current_time:
\* the recognizer afterwards (self) and the dict returned (ret)
SmoothPrediction(self, token, confidence, current_time) ==
    LET w         == DequeAppend(self.prediction_window, <<token, confidence>>)
        dominant  == MostCommon(w)
        avg       == AvgConfidence(w, dominant)
        is_stable == IsStable(w)
        start     == StableStart(is_stable, self.stable_start, current_time)
        stable_ms == IF is_stable THEN current_time - start ELSE 0
        should_commit ==
            /\ is_stable
            /\ LongEnough(stable_ms)
            /\ CooledDown(current_time - self.last_commit_time)
            /\ NotRepeat(dominant, self.last_committed_token)
    IN  IF Len(w) = 0
        THEN [ self |-> [ self EXCEPT !.prediction_window = w ],
               ret  |-> [ type |-> "prediction", ts |-> current_time,
                          token |-> "NONE", confidence |-> 0,
                          stable_ms |-> 0, commit |-> FALSE ] ]
        ELSE [ self |-> [ prediction_window    |-> w,
                          last_commit_time     |->
                              IF should_commit THEN current_time
                              ELSE self.last_commit_time,
                          last_committed_token |->
                              IF should_commit THEN dominant
                              ELSE self.last_committed_token,
                          stable_start         |-> start ],
               ret  |-> [ type |-> "prediction", ts |-> current_time,
                          token |-> dominant, confidence |-> avg,
                          stable_ms |-> stable_ms, commit |-> should_commit ] ]

\* the event before any call was made
NoEvent ==
    [ type |-> "none", ts |-> 0, token |-> "NONE", confidence |-> 0,
      stable_ms |-> 0, commit |-> FALSE ]

\* the handler's prediction before any frame was received
NoPrediction == [ ev |-> NoEvent, landmarks |-> 0, frame |-> 0 ]

\* ------------------------------------------------------------------------
\* A stabilizer driven directly (smooth_prediction as a function of its
\* inputs and of the clock)
\* ------------------------------------------------------------------------

\* recognizer = SignRecognizer() at import; no client is connected
Init ==
    /\ recognizer = NewRecognizer
    /\ now = StartTime
    /\ event = NoEvent
    /\ nframes = 0
    /\ switches = 0
    /\ commits = << >>
    /\ other_since = FALSE
    /\ out = << >>
    /\ hold = NoHold
    /\ hold_from = 0
    /\ hold_frames = 0
    /\ pc = [c \in Conns |-> "idle"]
    /\ inbox = [c \in Conns |-> << >>]
    /\ prediction = [c \in Conns |-> NoPrediction]
    /\ frames_in = [c \in Conns |-> 0]
    /\ units = [c \in Conns |-> 0]
    /\ replies = [c \in Conns |-> 0]
    /\ answered = [c \in Conns |-> << >>]
    /\ ended = [c \in Conns |-> "none"]
    /\ nmsgs = 0
    /\ ignored = [c \in Conns |-> 0]
    /\ session = [c \in Conns |-> NewRecognizer]
    /\ expected = [c \in Conns |-> NoEvent]

\* the window's newest entry, i.e. the previous input
LastInput == recognizer.prediction_window[Len(recognizer.prediction_window)]

\* one call recognizer.smooth_prediction(p[1], p[2]), d ms after the last one
Apply(p, d) ==
    \E r \in { SmoothPrediction(recognizer, p[1], p[2], now + d) } :
        /\ nframes' = nframes + 1
        /\ now' = now + d
        /\ recognizer' = r.self
        /\ event' = r.ret
        /\ commits' = IF r.ret.commit THEN Append(commits, r.ret) ELSE commits
        /\ other_since' =
              IF r.ret.commit THEN FALSE
              ELSE \/ other_since
                   \/ /\ commits # << >>
                      /\ r.ret.token # commits[Len(commits)].token
        /\ UNCHANGED server_vars

\* a call within the bound on the number of frames
Call(p, d) == nframes < MaxFrames /\ Apply(p, d)

\* the number of changes of input after feeding p
SwitchesAfter(p) ==
    switches + (IF nframes > 0 /\ p # LastInput THEN 1 ELSE 0)

\* any input, a bounded number of changes of input
Feed ==
    \E p \in StabInputs, d \in Deltas :
        LET sw == IF nframes > 0 /\ p # LastInput THEN 1 ELSE 0 IN
            /\ switches + sw <= MaxSwitches
            /\ switches' = switches + sw
            /\ Call(p, d)
            /\ UNCHANGED << out, hold_vars >>

NextStab == Feed

SpecStab == Init /\ [][NextStab]_vars

\* ------------------------------------------------------------------------
\* Longer runs over two committable labels: long enough to commit one
\* label, switch to the other and come back to the first
\* ------------------------------------------------------------------------

FeedLong ==
    \E p \in LongInputs, d \in LongDeltas :
        /\ nframes < MaxLongFrames
        /\ SwitchesAfter(p) <= MaxSwitches
        /\ switches' = SwitchesAfter(p)
        /\ Apply(p, d)
        /\ UNCHANGED << out, hold_vars >>

NextLong == FeedLong

SpecLong == Init /\ [][NextLong]_vars

\* ------------------------------------------------------------------------
\* Any frames first, then one label held: from some point on every frame
\* is the same (L, c), with L not NONE, c >= 0.75 and L other than the last
\* committed token, and time keeps increasing
\* ------------------------------------------------------------------------

\* a frame before any label is held
FeedBefore ==
    \E p \in StabInputs, d \in Deltas :
        /\ hold = NoHold
        /\ nframes < MaxPrefix
        /\ Apply(p, d)
        /\ UNCHANGED << switches, out, hold_vars >>

\* from now on only p is fed
StartHold ==
    \E p \in HoldInputs :
        /\ hold = NoHold
        /\ p[1] # recognizer.last_committed_token
        /\ hold' = p
        /\ hold_from' = Len(commits)
        /\ UNCHANGED << recognizer, now, event, nframes, switches, commits,
                        other_since, out, hold_frames, server_vars >>

\* the next frame of the held label
FeedHold ==
    \E d \in HoldDeltas :
        /\ hold # NoHold
        /\ hold_frames < MaxHoldFrames
        /\ hold_frames' = hold_frames + 1
        /\ Apply(hold, d)
        /\ UNCHANGED << switches, out, hold, hold_from >>

NextHold == FeedBefore \/ StartHold \/ FeedHold

\* a FeedHold step seen through its counter: FeedHold is the only action
\* that changes hold_frames and it can be taken whenever its guard holds
HoldStep ==
    /\ hold # NoHold
    /\ hold_frames < MaxHoldFrames
    /\ hold_frames' = hold_frames + 1

\* frames of the held label keep arriving
SpecHold == Init /\ [][NextHold]_vars /\ WF_hold_frames(HoldStep)

\* ------------------------------------------------------------------------
\* Scenario: only (HELLO, 0.9) is fed to a fresh stabilizer
\* ------------------------------------------------------------------------

FeedHello ==
    \E d \in HelloDeltas :
        /\ Call(<<"HELLO", 90>>, d)
        /\ out' = Append(out, event')
        /\ UNCHANGED << switches, hold_vars >>

NextHello == FeedHello

SpecHello == Init /\ [][NextHello]_vars

\* ------------------------------------------------------------------------
\* Scenario: (HELLO, 0.9), (NONE, 0.9), (HELLO, 0.9), ... is fed to a fresh
\* stabilizer, at any non-decreasing timestamps
\* ------------------------------------------------------------------------

\* the input of the next frame of the alternating sequence
AltInput == IF nframes % 2 = 0 THEN <<"HELLO", 90>> ELSE <<"NONE", 90>>

FeedAlt ==
    \E d \in AltDeltas :
        /\ Call(AltInput, d)
        /\ UNCHANGED << switches, out, hold_vars >>

NextAlt == FeedAlt

SpecAlt == Init /\ [][NextAlt]_vars

\* ------------------------------------------------------------------------
\* The /ws endpoint: one handler coroutine per connection, all of them on
\* one event loop and all of them using the module-level recognizer.  A
\* handler runs without interruption between two awaits: from the return of
\* receive_text to the call of send_text it holds the loop, and no other
\* handler takes a step.
\* ------------------------------------------------------------------------

\* SignRecognizer.classify applied to the features of a detected hand
Classify(avg_distance) ==
    IF avg_distance < 30 THEN <<"STOP", 85>>
    ELSE IF avg_distance < 50 THEN <<"HELLO", 82>>
    ELSE IF avg_distance < 70 THEN <<"YES", 78>>
    ELSE <<"NONE", 90>>

\* token, confidence of a decoded image: classify, or NONE without a hand
Predict(image) == IF image = NoHand THEN <<"NONE", 0>> ELSE Classify(image)

\* landmarks_list: 21 points of the detected hand, or empty
LandmarksList(image) == IF image = NoHand THEN 0 ELSE 21

\* the messages a client may send; seq numbers the frames of a connection
\* in the order the client sends them (0 on every other message)
FrameMsgs == { [ type |-> "frame", image |-> i, seq |-> 0 ] : i \in Images }
BadMsgs   == { [ type |-> k, image |-> NoHand, seq |-> 0 ] : k \in BadKinds }
OtherMsgs == { [ type |-> k, image |-> NoHand, seq |-> 0 ] : k \in OtherTypes }
CloseMsg  == [ type |-> "disconnect", image |-> NoHand, seq |-> 0 ]

\* frames of connection c sent so far: those received and those in flight
FramesSent(c) ==
    frames_in[c]
    + Cardinality({ i \in 1..Len(inbox[c]) : inbox[c][i].type = "frame" })

\* message m as client c sends it
Stamped(c, m) ==
    IF m.type = "frame" THEN [ m EXCEPT !.seq = FramesSent(c) + 1 ] ELSE m

\* the newest message delivered first
Delivered_Newest(q) == Len(q)

\* position in q of the message receive_text returns: the oldest one
Delivered(q) == 1

\* q without its i-th message
Without(q, i) == SubSeq(q, 1, i - 1) \o SubSeq(q, i + 1, Len(q))

\* the client has closed its side: nothing more is sent on this connection
Closing(c) == \E i \in 1..Len(inbox[c]) : inbox[c][i] = CloseMsg

\* a handler is between receive_text and send_text: detection,
\* classification and smoothing are plain calls in the coroutine, so the
\* event loop runs nothing else until they return
LoopBusy == \E c \in Conns : pc[c] = "infer"

\* a client opens a connection: websocket.accept(), handler enters the loop
Connect(c) ==
    /\ ~LoopBusy
    /\ pc[c] = "idle"
    /\ nmsgs < MaxMsgs
    /\ pc' = [pc EXCEPT ![c] = "recv"]
    /\ inbox' = [inbox EXCEPT ![c] = << >>]
    /\ prediction' = [prediction EXCEPT ![c] = NoPrediction]
    /\ frames_in' = [frames_in EXCEPT ![c] = 0]
    /\ units' = [units EXCEPT ![c] = 0]
    /\ replies' = [replies EXCEPT ![c] = 0]
    /\ answered' = [answered EXCEPT ![c] = << >>]
    /\ ended' = [ended EXCEPT ![c] = "none"]
    /\ ignored' = [ignored EXCEPT ![c] = 0]
    /\ session' = [session EXCEPT ![c] = NewRecognizer]
    /\ expected' = [expected EXCEPT ![c] = NoEvent]
    /\ UNCHANGED << recognizer, now, stab_vars, nmsgs >>

\* a client sends a message, or closes its side of the connection
ClientSend(c) ==
    /\ pc[c] # "idle"
    /\ ~Closing(c)
    /\ nmsgs < MaxMsgs
    /\ Len(inbox[c]) < MaxInFlight
    /\ \E m \in FrameMsgs \cup BadMsgs \cup OtherMsgs \cup { CloseMsg } :
           inbox' = [inbox EXCEPT ![c] = Append(@, Stamped(c, m))]
    /\ nmsgs' = nmsgs + 1
    /\ UNCHANGED << recognizer, now, stab_vars, pc, prediction, frames_in,
                    units, replies, answered, ended, ignored, session, expected >>

\* the handler is at receive_text, a message is there for it and the event
\* loop is free to resume it
Receiving(c) == ~LoopBusy /\ pc[c] = "recv" /\ inbox[c] # << >>

\* data = await websocket.receive_text()
Data(c) == inbox[c][Delivered(inbox[c])]

\* receive_text returns a frame: the handler starts working on it (the
\* frame stays at the head of inbox until its prediction is computed)
BeginFrame(c) ==
    /\ Receiving(c)
    /\ Data(c).type = "frame"
    /\ pc' = [pc EXCEPT ![c] = "infer"]
    /\ UNCHANGED << recognizer, now, stab_vars, inbox, prediction, frames_in,
                    units, replies, answered, ended, nmsgs, ignored, session,
                    expected >>

\* the frame is decoded, classified and smoothed; the handler reaches
\* send_text with its prediction
RecvFrame(c) ==
    /\ pc[c] = "infer"
    /\ \E m \in { Data(c) }, d \in ServerDeltas :
      \E r \in { SmoothPrediction(recognizer, Predict(m.image)[1],
                                   Predict(m.image)[2], now + d) },
         s \in { SmoothPrediction(session[c], Predict(m.image)[1],
                                   Predict(m.image)[2], now + d) } :
        /\ inbox' = [inbox EXCEPT ![c] = Without(@, Delivered(@))]
        /\ now' = now + d
        /\ recognizer' = r.self
        /\ prediction' = [prediction EXCEPT ![c] =
               [ ev |-> r.ret, landmarks |-> LandmarksList(m.image),
                 frame |-> m.seq ]]
        /\ frames_in' = [frames_in EXCEPT ![c] = @ + 1]
        /\ units' = [units EXCEPT ![c] = @ + 1]
        /\ session' = [session EXCEPT ![c] = s.self]
        /\ expected' = [expected EXCEPT ![c] = s.ret]
        /\ pc' = [pc EXCEPT ![c] = "send"]
        /\ UNCHANGED << stab_vars, replies, answered, ended, nmsgs,
                        ignored >>

\* send_text returns: the prediction is handed to the transport, the loop
\* goes round
Send(c) ==
    /\ ~LoopBusy
    /\ pc[c] = "send"
    /\ replies' = [replies EXCEPT ![c] = @ + 1]
    /\ answered' = [answered EXCEPT ![c] = Append(@, prediction[c].frame)]
    /\ pc' = [pc EXCEPT ![c] = "recv"]
    /\ UNCHANGED << recognizer, now, stab_vars, inbox, prediction, frames_in,
                    units, ended, nmsgs, ignored, session, expected >>

\* how a handler ends when send_text raises: WebSocketDisconnect is printed
\* as a disconnect, any other exception is printed and the websocket closed
SendFailures == { "disconnect", "send_error" }

\* send_text raises because the client has closed its side: the prediction
\* is never delivered, the except branches end the handler
SendFails(c) ==
    /\ ~LoopBusy
    /\ pc[c] = "send"
    /\ Closing(c)
    /\ \E e \in SendFailures : ended' = [ended EXCEPT ![c] = e]
    /\ inbox' = [inbox EXCEPT ![c] = << >>]
    /\ pc' = [pc EXCEPT ![c] = "idle"]
    /\ UNCHANGED << recognizer, now, stab_vars, prediction, frames_in,
                    units, replies, answered, nmsgs, ignored, session, expected >>

\* a message that makes the handler raise: except Exception prints the
\* error and closes the websocket; the handler returns
RecvBad(c) ==
    /\ Receiving(c)
    /\ Data(c).type \in BadKinds
    /\ inbox' = [inbox EXCEPT ![c] = << >>]
    /\ pc' = [pc EXCEPT ![c] = "idle"]
    /\ ended' = [ended EXCEPT ![c] = "error"]
    /\ UNCHANGED << recognizer, now, stab_vars, prediction, frames_in,
                    units, replies, answered, nmsgs, ignored, session, expected >>

\* a message of another type taken for a protocol error: the connection is
\* closed
RecvOther_Raises(c) ==
    /\ Receiving(c)
    /\ Data(c).type \in OtherTypes
    /\ inbox' = [inbox EXCEPT ![c] = << >>]
    /\ pc' = [pc EXCEPT ![c] = "idle"]
    /\ ended' = [ended EXCEPT ![c] = "error"]
    /\ UNCHANGED << recognizer, now, stab_vars, prediction, frames_in,
                    units, replies, answered, nmsgs, ignored, session,
                    expected >>

\* a well-formed message of another type: no branch of the loop takes it,
\* nothing is sent, the handler is back at receive_text
RecvOther(c) ==
    /\ Receiving(c)
    /\ Data(c).type \in OtherTypes
    /\ inbox' = [inbox EXCEPT ![c] = Without(@, Delivered(@))]
    /\ units' = [units EXCEPT ![c] =
           IF Data(c).type \in { "audio", "audio_file" } THEN @ + 1 ELSE @]
    /\ ignored' = [ignored EXCEPT ![c] = @ + 1]
    /\ UNCHANGED << recognizer, now, stab_vars, pc, prediction, frames_in,
                    replies, answered, ended, nmsgs, session, expected >>

\* the client is gone: receive_text raises WebSocketDisconnect, the handler
\* prints and returns
RecvDisconnect(c) ==
    /\ Receiving(c)
    /\ Data(c) = CloseMsg
    /\ inbox' = [inbox EXCEPT ![c] = << >>]
    /\ pc' = [pc EXCEPT ![c] = "idle"]
    /\ ended' = [ended EXCEPT ![c] = "disconnect"]
    /\ UNCHANGED << recognizer, now, stab_vars, prediction, frames_in,
                    units, replies, answered, nmsgs, ignored, session, expected >>

Next ==
    \E c \in Conns :
        \/ Connect(c)
        \/ ClientSend(c)
        \/ BeginFrame(c)
        \/ RecvFrame(c)
        \/ Send(c)
        \/ SendFails(c)
        \/ RecvBad(c)
        \/ RecvOther(c)
        \/ RecvDisconnect(c)

Spec == Init /\ [][Next]_vars

\* ------------------------------------------------------------------------
\* Properties of the stabilizer
\* ------------------------------------------------------------------------

window == recognizer.prediction_window

\* C2: two consecutive commit=true events never carry the same token, so a
\* label that stays dominant is committed at most once however long it is
\* held, and the same label is never committed twice in a row.
C2_NoRepeatedCommit ==
    \A i \in 1..(Len(commits) - 1) : commits[i].token # commits[i + 1].token

\* L was committed, is still the stable dominant label a full cooldown later,
\* and the frame is not committed
C2_Witness ==
    /\ Len(commits) = 1
    /\ event.token = commits[1].token
    /\ event.stable_ms >= StableThresholdMs
    /\ event.ts - commits[1].ts >= CooldownMs
    /\ ~event.commit

\* C3: any two commit=true events are at least 1000 ms apart, whatever their
\* labels.
C3_GlobalCooldown ==
    \A i \in 1..Len(commits) : \A j \in 1..Len(commits) :
        i < j => commits[j].ts - commits[i].ts >= CooldownMs

\* a second, different label has been stable for 400 ms less than 1000 ms
\* after the previous commit, and is not committed
C3_Witness ==
    /\ Len(commits) = 1
    /\ event.token # commits[1].token
    /\ event.stable_ms >= StableThresholdMs
    /\ event.ts - commits[1].ts < CooldownMs
    /\ ~event.commit

\* C4: a commit=true event is emitted only on a frame whose dominant label
\* fills at least 0.7 of the window, has average confidence at least 0.75,
\* is not NONE, and has been stable for at least 400 ms; the first frame of
\* a fresh stabilizer is never committed.
C4_CommitOnlyWhenStable ==
    /\ event.commit =>
         /\ TokenCount(window, event.token) * 10 >= 7 * Len(window)
         /\ event.confidence >= 75 * AvgScale
         /\ event.token # "NONE"
         /\ event.stable_ms >= 400
    /\ nframes = 1 => ~event.commit

\* a commit has been emitted, on a window that also holds another label
C4_Witness ==
    /\ event.commit
    /\ event.stable_ms >= 400
    /\ TokenCount(window, event.token) < Len(window)

\* the outputs so far come from frames spaced exactly gap ms apart
Spaced(gap) == \A i \in 1..(Len(out) - 1) : out[i + 1].ts - out[i].ts = gap

\* C5: 10 x (HELLO, 0.9) spaced 50 ms apart on a fresh stabilizer: exactly
\* the 9th output has commit=true, with token HELLO and stable_ms >= 400
\* (400 ms after the first frame); every other output has commit=false.
C5_TenHellos ==
    (Len(out) = 10 /\ Spaced(50)) =>
        /\ \A i \in 1..10 : out[i].commit <=> (i = 9)
        /\ out[9].token = "HELLO"
        /\ out[9].stable_ms >= 400
        /\ out[9].ts = out[1].ts + 400

\* the ten frames have been fed 50 ms apart
C5_Witness == Len(out) = 10 /\ Spaced(50) /\ out[9].commit

\* C6: the alternating sequence never yields commit=true.
C6_AlternatingNeverCommits == ~event.commit /\ commits = << >>

\* an alternating sequence longer than the window, spread over more than
\* the stability threshold and the cooldown together
C6_Witness ==
    /\ nframes > WindowSize
    /\ now - StartTime >= StableThresholdMs + CooldownMs
    /\ event.token = "NONE"

\* the window holds the last min(nframes, 10) inputs
C7_Bounded ==
    /\ Len(window) <= 10
    /\ Len(window) = (IF nframes < 10 THEN nframes ELSE 10)

\* a call appends one entry at the end and, on a full window, drops the
\* first one
C7_FifoStep ==
    /\ Len(window) < 10 =>
          /\ Len(window') = Len(window) + 1
          /\ SubSeq(window', 1, Len(window)) = window
    /\ Len(window) = 10 =>
          /\ Len(window') = 10
          /\ SubSeq(window', 1, 9) = Tail(window)

\* once ten equal entries (t, c) fill the window, the event is (t, c)
\* whatever was fed before them
C7_EvictedNotCounted ==
    (Len(window) = 10 /\ \A i \in 1..10 : window[i] = window[1]) =>
        /\ event.token = window[1][1]
        /\ event.confidence = window[1][2] * AvgScale

\* C7: the prediction window is a FIFO of at most 10 entries: each call
\* appends one entry and evicts the oldest when 10 are held, and an evicted
\* entry counts neither toward the dominant token nor toward avg_confidence.
C7_WindowFifo ==
    /\ [](C7_Bounded /\ C7_EvictedNotCounted)
    /\ [][C7_FifoStep]_vars

\* 11 appends: the first entry differed from the ten that followed it
C7_Witness ==
    /\ nframes = 11
    /\ switches = 1
    /\ \A i \in 1..10 : window[i] = window[1]

\* ------------------------------------------------------------------------
\* Properties of the endpoint
\* ------------------------------------------------------------------------

\* the fields of a prediction event that the stabilizer decides
Decided(e) == << e.token, e.confidence, e.stable_ms, e.commit >>

\* C1: stabilizer state is per connection: the prediction a connection is
\* sent is the one a stabilizer fed with that connection's frames alone
\* returns, whatever frames other connections send in between.
C1_NoCrossTalk ==
    \A c \in Conns :
        pc[c] = "send" => Decided(prediction[c].ev) = Decided(expected[c])

\* C8: on an open connection whose handler is waiting for the next message,
\* as many events have been sent as frame, audio and audio_file messages
\* were received.
C8_OneEventPerUnit ==
    \A c \in Conns : pc[c] = "recv" => replies[c] = units[c]

\* C9: on every connection the k-th prediction sent answers the k-th frame
\* the client sent, and a frame reaches the window only after the events of
\* all earlier frames of the connection were produced and sent.
C9_FramesInOrder ==
    \A c \in Conns :
        /\ \A k \in 1..Len(answered[c]) : answered[c][k] = k
        /\ pc[c] = "send" => prediction[c].frame = Len(answered[c]) + 1
        /\ frames_in[c] - Len(answered[c]) \in
               (IF pc[c] = "send" THEN { 1 }
                ELSE IF pc[c] = "idle" THEN { 0, 1 }
                ELSE { 0 })

\* a second frame is being answered while a third one is already in flight
C9_Witness ==
    \E c \in Conns :
        /\ pc[c] = "send"
        /\ Len(answered[c]) = 1
        /\ prediction[c].frame = 2
        /\ inbox[c] # << >>
        /\ inbox[c][1].type = "frame"

\* C10: no connection is ever closed by the server because of a malformed
\* or undecodable message.
C10_BadUnitKeepsConnection ==
    \A c \in Conns : ended[c] # "error"

\* the handler of c receives a message whose type is none of frame, audio,
\* audio_file
IgnoresUnknown(c) ==
    /\ pc[c] = "recv"
    /\ inbox[c] # << >>
    /\ Data(c).type \in OtherTypes \ { "audio", "audio_file" }
    /\ Len(inbox'[c]) < Len(inbox[c])

\* that step sends nothing, keeps the connection open and leaves the
\* recognizer as it was
C11_Step ==
    \A c \in Conns :
        IgnoresUnknown(c) =>
            /\ recognizer' = recognizer
            /\ pc'[c] = "recv"
            /\ replies'[c] = replies[c]
            /\ prediction'[c] = prediction[c]
            /\ ended'[c] = ended[c]
            /\ Len(inbox'[c]) = Len(inbox[c]) - 1

\* a frame received after ignored messages is answered as the next frame of
\* the connection, by a prediction event
C11_NextFrameAnswered ==
    \A c \in Conns :
        (ignored[c] > 0 /\ pc[c] = "send") =>
            /\ prediction[c].ev.type = "prediction"
            /\ prediction[c].frame = Len(answered[c]) + 1

\* C11: a message with an unrecognized type produces no response, does not
\* close the connection and leaves the stabilizer state unchanged; the next
\* frame on the connection is answered normally.
C11_UnknownTypeIgnored ==
    /\ []C11_NextFrameAnswered
    /\ [][C11_Step]_vars

\* a frame is being answered on a connection that ignored a message of
\* unknown type (and no audio message) before it
C11_Witness ==
    \E c \in Conns :
        /\ ignored[c] > 0
        /\ units[c] = frames_in[c]
        /\ pc[c] = "send"
        /\ prediction[c].ev.token = "HELLO"

\* C12: stabilizer state lives as long as its connection: with no other
\* connection open, the first frame of a connection is evaluated against a
\* window holding only that frame, with stable_start unset before it and no
\* last committed token, whatever earlier connections sent.
C12_FreshPerConnection ==
    \A c \in Conns :
        ( /\ pc[c] = "send"
          /\ frames_in[c] = 1
          /\ \A o \in Conns \ { c } : pc[o] = "idle" ) =>
            /\ Len(recognizer.prediction_window) = 1
            /\ prediction[c].ev.stable_ms = 0
            /\ ~prediction[c].ev.commit
            /\ Decided(prediction[c].ev) = Decided(expected[c])

\* ------------------------------------------------------------------------
\* Further properties of the stabilizer
\* ------------------------------------------------------------------------

\* the frame just evaluated was stable, read off the window and the event
FrameStable ==
    /\ nframes > 0
    /\ event.token # "NONE"
    /\ TokenCount(window, event.token) * 10 >= 7 * Len(window)
    /\ event.confidence >= 75 * AvgScale

\* stable_start is set exactly after a stable frame, and then stable_ms is
\* the time since stable_start; a frame that is not stable has stable_ms 0
C14_ClockState ==
    nframes > 0 =>
        /\ (recognizer.stable_start # NoneTime) <=> FrameStable
        /\ FrameStable => event.stable_ms = event.ts - recognizer.stable_start
        /\ ~FrameStable => event.stable_ms = 0

\* the first stable frame after a frame that was not stable (or after none)
\* starts the clock at its own timestamp: stable_ms is 0
C14_ClockStep ==
    (recognizer.stable_start = NoneTime /\ recognizer'.stable_start # NoneTime)
        => /\ recognizer'.stable_start = event'.ts
           /\ event'.stable_ms = 0

\* C14: losing stability resets the stability clock entirely: stable_start
\* is set iff the frame was stable, every non-stable frame has stable_ms 0,
\* and the first stable frame after a non-stable one has stable_ms 0.
C14_StabilityClock ==
    /\ []C14_ClockState
    /\ [][C14_ClockStep]_vars

\* stability was held for a while, lost, and has just been regained
C14_Witness ==
    /\ Len(commits) = 1
    /\ commits[1].stable_ms >= 400
    /\ FrameStable
    /\ event.stable_ms = 0
    /\ event.ts > commits[1].ts

\* number of entries of the window equal to the pair <<t, c>>
PairCount(t, c) == Cardinality({ i \in 1..Len(window) : window[i] = <<t, c>> })

\* the confidences that occur in the window
WindowConfs == { window[i][2] : i \in 1..Len(window) }

RECURSIVE WeightedSum(_, _)
\* sum over the confidences c in S of c times the number of entries <<t, c>>
WeightedSum(S, t) ==
    IF S = { } THEN 0
    ELSE LET c == CHOOSE x \in S : TRUE
         IN  c * PairCount(t, c) + WeightedSum(S \ { c }, t)

\* t occurs in the window before any occurrence of u
OccursFirst(t, u) ==
    \E i \in 1..Len(window) :
        window[i][1] = t /\ \A j \in 1..i : window[j][1] # u

\* C15: the emitted token is a most frequent token of the window, on a tie
\* the tied token that occurs first in the window, and the emitted
\* confidence is the mean confidence of the entries carrying that token.
C15_DominantAndMean ==
    nframes > 0 =>
        /\ \A u \in WindowTokens(window) \ { event.token } :
              \/ TokenCount(window, event.token) > TokenCount(window, u)
              \/ /\ TokenCount(window, event.token) = TokenCount(window, u)
                 /\ OccursFirst(event.token, u)
        /\ event.confidence * TokenCount(window, event.token)
              = AvgScale * WeightedSum(WindowConfs, event.token)

\* two tokens tie for the highest count in a full window holding the
\* emitted token at two different confidences
C15_Witness ==
    /\ Len(window) = 10
    /\ \E u \in WindowTokens(window) \ { event.token } :
          TokenCount(window, u) = TokenCount(window, event.token)
    /\ PairCount(event.token, 90) > 0
    /\ PairCount(event.token, 25) > 0

\* one more call of smooth_prediction has been made
OneMoreFrame == nframes' = nframes + 1

\* two consecutive stable frames have the same dominant token
C18_Step ==
    (OneMoreFrame /\ FrameStable /\ FrameStable') => event'.token = event.token

\* a commit is for the token the clock has been running on, for 400 ms
C18_CommitStep ==
    (OneMoreFrame /\ event'.commit) =>
        /\ FrameStable
        /\ event.token = event'.token
        /\ recognizer.stable_start = recognizer'.stable_start
        /\ event'.ts - recognizer.stable_start >= 400

\* C18: the stability clock always measures a single label: consecutive
\* stable frames have equal dominant tokens, so a commit for L means L was
\* itself continuously stable for at least 400 ms.
C18_SingleLabelClock == [][C18_Step /\ C18_CommitStep]_vars

\* a second label has become stable right after the window was dominated
\* by another one, with an unstable frame in between
C18_Witness ==
    /\ Len(commits) = 2
    /\ commits[1].token # commits[2].token
    /\ event.commit

\* two distinct tokens share the highest count of the window
TiedWindow ==
    \E t \in WindowTokens(window), u \in WindowTokens(window) :
        /\ t # u
        /\ TokenCount(window, t) = TokenCount(window, u)
        /\ \A v \in WindowTokens(window) :
              TokenCount(window, v) <= TokenCount(window, t)

\* C19: whenever two or more tokens tie for the highest count, the frame
\* is not stable: stable_start is cleared, stable_ms is 0 and commit is
\* false, whichever tied token is reported.
C19_TieNeverStable ==
    TiedWindow =>
        /\ ~FrameStable
        /\ recognizer.stable_start = NoneTime
        /\ event.stable_ms = 0
        /\ ~event.commit

\* a tie between two committable labels at high confidence, long after the
\* first of them became stable
C19_Witness ==
    /\ TiedWindow
    /\ WindowTokens(window) = { "HELLO", "YES" }
    /\ PairCount("HELLO", 25) = 0
    /\ now - StartTime >= 1000

\* the dominant label fills less than 0.7 of the window
RatioBelow == TokenCount(window, event.token) * 10 < 7 * Len(window)

\* C16 as stated: on the alternating sequence the ratio is below 0.7 and
\* stable_start is unset after every frame, the first included.
C16_NeverStable ==
    nframes > 0 => (RatioBelow /\ ~FrameStable /\ recognizer.stable_start = NoneTime)

\* C16, amended: on the alternating sequence the first frame is stable (a
\* window of one HELLO has ratio 1.0: stable_start is set to its timestamp,
\* stable_ms is 0, commit is false); from the second frame on the ratio is
\* below 0.7, is_stable is false and stable_start is unset.
C16_StableOnlyAtFirst ==
    /\ nframes = 1 =>
          /\ FrameStable
          /\ recognizer.stable_start = event.ts
          /\ event.stable_ms = 0
          /\ ~event.commit
    /\ nframes > 1 =>
          /\ RatioBelow
          /\ ~FrameStable
          /\ recognizer.stable_start = NoneTime
          /\ event.stable_ms = 0

\* the window has just filled up with five HELLO and five NONE
C16_Witness ==
    /\ nframes = 10
    /\ event.token = "HELLO"
    /\ TokenCount(window, "HELLO") = 5
    /\ recognizer.stable_start = NoneTime

\* the last event with commit = true (on a frame that commits, that frame)
LastCommit == commits[Len(commits)]

\* the current frame has a stable dominant label, held for 400 ms, at least
\* 1000 ms after the last commit, and is not committed
Suppressed ==
    /\ commits # << >>
    /\ FrameStable
    /\ event.stable_ms >= 400
    /\ event.ts - LastCommit.ts >= 1000
    /\ ~event.commit

\* C13: same-label suppression ends once a different label has been
\* observed: once a frame since the commit of L had a dominant label other
\* than L (committed or not), a frame on which L is stable for 400 ms,
\* 1000 ms or more after the last commit, commits L again.
C13_ObservedLiftsSuppression == ~(Suppressed /\ other_since)

\* what the code does instead: a stable label held for 400 ms, 1000 ms or
\* more after the last commit, is committed unless it is the last committed
\* label, however many other labels were dominant in between
OnlyLastCommittedSuppressed == Suppressed => event.token = LastCommit.token

\* L was committed, then another label, then L again
RecommittedAfterOther ==
    /\ Len(commits) = 3
    /\ commits[1].token = commits[3].token
    /\ event.commit

\* the held label has been committed since it is held
HoldCommitted ==
    /\ hold # NoHold
    /\ \E i \in (hold_from + 1)..Len(commits) : commits[i].token = hold[1]

\* once the held label is committed, no later frame commits
C20_NoFurtherCommit == HoldCommitted => commits' = commits

\* C20: once only (L, c) is fed, with L not NONE, c >= 0.75, L other than
\* the last committed token and time increasing, a commit=true event for L
\* is eventually emitted, and after it no further commit=true event while L
\* keeps being fed.
C20_HeldLabelCommitsOnce ==
    /\ (hold # NoHold) ~> HoldCommitted
    /\ [][C20_NoFurtherCommit]_vars

\* the label was first held when another label had been committed and was
\* still dominating the window; it has been committed and held for more
\* than a cooldown since
C20_Witness ==
    /\ HoldCommitted
    /\ hold_from > 0
    /\ LastCommit.token = hold[1]
    /\ event.ts - LastCommit.ts >= 1000
    /\ ~event.commit

\* the handler of connection c takes its next message
Handle(c) ==
    BeginFrame(c) \/ RecvBad(c) \/ RecvOther(c) \/ RecvDisconnect(c)

\* connection a is between receiving a frame and sending its prediction,
\* and a message is waiting for the handler of connection b
MidInference(a, b) ==
    /\ a # b
    /\ pc[a] = "infer"
    /\ pc[b] = "recv"
    /\ inbox[b] # << >>

\* C17: inference runs off the message loop: while the frame of one
\* connection is in inference, the handler of another connection can
\* receive a message that is waiting for it and make progress.
C17_InferenceOffLoop ==
    \A a, b \in Conns : MidInference(a, b) => ENABLED Handle(b)

\* what the code does instead: while a frame is in inference no handler
\* of another connection takes a step
OthersWaitForInference ==
    \A a \in Conns :
        pc[a] = "infer" =>
            \A b \in Conns \ { a } :
                /\ pc'[b] = pc[b]
                /\ replies'[b] = replies[b]
                /\ Len(inbox'[b]) >= Len(inbox[b])

InferenceHoldsLoop == [][OthersWaitForInference]_vars

====
